---- MODULE Spec2Model ----
(***************************************************************************)
(* Model of genai_file_search.py: a linear script that creates a File      *)
(* Search store, looks it up by display name, uploads the files of a       *)
(* directory through a ThreadPoolExecutor, queries, replaces doc1.txt      *)
(* (find, delete, reupload, poll), queries again and deletes the store.    *)
(***************************************************************************)
EXTENDS Integers, Sequences, FiniteSets, TLC

\* ---------------------------------------------------------------- constants
max_workers == 5
file_store_name == "my-example-store"
doc1_display_name == "doc1.txt"

\* ------------------------------------------------------------------- bounds
MaxFiles == 2        \* files in docs/ in the whole-script specification
PoolFiles == 6       \* files in docs/ in the batch specification
MaxStores == 2       \* stores the account holds before the run
MaxDocs == 2         \* documents a pre-existing store holds

VARIABLES
    pc,                 \* position of the main thread in the script
    err,                \* message of the exception that ended the run
    api_key,            \* os.getenv('GOOGLE_API_KEY') is set
    stores,             \* the account's stores, in listing order
    file_search_store,  \* id of the store created in step 1 (0: none)
    slisting,           \* response of file_search_stores.list
    file_store,         \* id of the store found in step 2 (0: None)
    nfiles,             \* len(files): number of files in docs/
    flaky,              \* files for which the remote service may fail
    fstate,             \* per file: state of its future / upload_file call
    reports,            \* per file: what the as_completed loop made of its future
    docs,               \* documents the found store held before the run
    dlisting,           \* response of documents.list
    document,           \* id of the document matched in step 5 (0: none)
    deleted_docs,       \* ids of the documents deleted from the store
    file_deleted,       \* the flag of step 5
    upload_op,          \* the Operation of the reupload
    doc1_file           \* content of the local file docs/doc1.txt

vars == <<pc, err, api_key, stores, file_search_store, slisting, file_store,
          nfiles, flaky, fstate, reports, docs, dlisting, document, deleted_docs,
          file_deleted, upload_op, doc1_file>>

inputs == <<api_key, nfiles, flaky>>

main_vars == <<pc, err, inputs, stores, file_search_store, slisting,
               file_store, docs, dlisting, document, deleted_docs,
               file_deleted, upload_op, doc1_file>>

update_vars == <<dlisting, document, deleted_docs, file_deleted, upload_op>>

\* ------------------------------------------------------------------ helpers
SeqsUpTo(S, n) == UNION {[1..k -> S] : k \in 0..n}

Files == 1..nfiles

\* Path(file_path).name: docs/ holds doc1.txt first, then other files
DisplayName(f) == IF f = 1 THEN doc1_display_name ELSE "doc" \o ToString(f) \o ".txt"

\* the loop without its break: the last matching entry wins
RECURSIVE FindLast(_, _, _)
FindLast(listing, target, i) ==
    IF i > Len(listing) THEN 0
    ELSE LET r == FindLast(listing, target, i + 1) IN
         IF r # 0 THEN r
         ELSE IF listing[i].name = target THEN i ELSE 0

\* the loops of steps 2 and 5: index of the first entry whose display name
\* equals the target, 0 when the listing is exhausted
RECURSIVE FindFirst(_, _, _)
FindFirst(listing, target, i) ==
    IF i > Len(listing) THEN 0
    ELSE IF listing[i].name = target THEN i
    ELSE FindFirst(listing, target, i + 1)

InsertAt(s, k, e) == SubSeq(s, 1, k - 1) \o <<e>> \o SubSeq(s, k, Len(s))

RemoveId(s, id) == SelectSeq(s, LAMBDA e : e.id # id)

Terminal == {"result_ok", "result_err", "exception"}

\* files whose upload_file call is running in a worker thread
InFlight == {f \in Files : fstate[f] \in {"uploading", "check", "sleep"}}

\* ---------------------------------------------------------------------- Init
StoreListings ==
    {[i \in 1..Len(ns) |-> [id |-> i, name |-> ns[i]]] :
        ns \in SeqsUpTo({"x", file_store_name}, MaxStores)}

DocListings ==
    {[i \in 1..Len(ns) |-> [id |-> i, name |-> ns[i], content |-> "orig"]] :
        ns \in SeqsUpTo({"other.txt", doc1_display_name}, MaxDocs)}

InitWith(S, N, F) ==
    /\ pc = "start"
    /\ err = "none"
    /\ api_key \in BOOLEAN
    /\ stores \in S
    /\ file_search_store = 0
    /\ slisting = <<>>
    /\ file_store = 0
    /\ nfiles \in N
    /\ flaky \in {F \cap (1..nfiles)}
    /\ fstate = [f \in 1..nfiles |-> "unsubmitted"]
    /\ reports = [f \in 1..nfiles |-> <<>>]
    /\ docs = <<>>
    /\ dlisting = <<>>
    /\ document = 0
    /\ deleted_docs = {}
    /\ file_deleted = FALSE
    /\ upload_op = "none"
    /\ doc1_file = "orig"

\* the remote service may fail for every file
AllFlaky == 1..(MaxFiles + PoolFiles)

\* the remote service may fail for the first file and for the last one
EndsFlaky == {1, PoolFiles}

Init == InitWith(StoreListings, 0..MaxFiles, AllFlaky)

InitBatch == InitWith({<<>>}, {PoolFiles}, AllFlaky)

InitLive == InitWith({<<>>}, {PoolFiles}, EndsFlaky)

\* -------------------------------------------------------------- steps 0 - 2
Raise(msg) == pc' = "aborted" /\ err' = msg

\* the credential check without its raise
CheckKeyNoRaise ==
    /\ pc = "start"
    /\ pc' = "create" /\ err' = err
    /\ UNCHANGED <<inputs, stores, file_search_store, slisting, file_store,
                   fstate, reports, docs, update_vars, doc1_file>>

CheckKey ==
    /\ pc = "start"
    /\ IF api_key THEN pc' = "create" /\ err' = err
                  ELSE Raise("GOOGLE_API_KEY not found")
    /\ UNCHANGED <<inputs, stores, file_search_store, slisting, file_store, fstate, reports, docs, update_vars, doc1_file>>

NewStoreId == Len(stores) + 1

CreateStore ==
    /\ pc = "create"
    /\ \/ \E k \in 1..(Len(stores) + 1) :
            /\ stores' = InsertAt(stores, k, [id |-> NewStoreId, name |-> file_store_name])
            /\ file_search_store' = NewStoreId
            /\ pc' = "lookup" /\ err' = err
       \/ Raise("create failed") /\ UNCHANGED <<stores, file_search_store>>
    /\ UNCHANGED <<inputs, slisting, file_store, fstate, reports,
                   docs, update_vars, doc1_file>>

\* what file_search_stores.list can answer: the account's stores, or the
\* stores without the one just created
StoreResponses == {stores, RemoveId(stores, file_search_store)}

LookupStore ==
    /\ pc = "lookup"
    /\ \E resp \in StoreResponses :
        LET i == FindFirst(resp, file_store_name, 1) IN
        /\ slisting' = resp
        /\ IF i = 0
           THEN /\ Raise("Store not found")
                /\ UNCHANGED <<file_store, docs>>
           ELSE /\ file_store' = resp[i].id
                /\ pc' = "submit" /\ err' = err
                /\ IF resp[i].id = file_search_store
                   THEN docs' = <<>>
                   ELSE docs' \in DocListings
    /\ UNCHANGED <<inputs, stores, file_search_store, fstate,
                   reports, update_vars, doc1_file>>

\* ------------------------------------------------------------------- step 3
Submit ==
    /\ pc = "submit"
    /\ fstate' = [f \in Files |-> "queued"]
    /\ pc' = "collect"
    /\ UNCHANGED <<err, inputs, stores, file_search_store, slisting,
                   file_store, reports, docs, update_vars, doc1_file>>

\* a pool that admits one work item too many
TakeOverBound(f) ==
    /\ fstate[f] = "queued"
    /\ \A g \in Files : g < f => fstate[g] # "queued"
    /\ Cardinality(InFlight) <= max_workers
    /\ fstate' = [fstate EXCEPT ![f] = "uploading"]
    /\ UNCHANGED <<main_vars, reports>>

\* worker threads that end after their first work item
TakeNoReuse(f) ==
    /\ fstate[f] = "queued"
    /\ \A g \in Files : g < f => fstate[g] # "queued"
    /\ Cardinality({g \in Files : fstate[g] # "queued"}) < max_workers
    /\ fstate' = [fstate EXCEPT ![f] = "uploading"]
    /\ UNCHANGED <<main_vars, reports>>

\* a worker thread takes the oldest queued work item and calls upload_file
Take(f) ==
    /\ fstate[f] = "queued"
    /\ \A g \in Files : g < f => fstate[g] # "queued"
    /\ Cardinality(InFlight) < max_workers
    /\ fstate' = [fstate EXCEPT ![f] = "uploading"]
    /\ UNCHANGED <<main_vars, reports>>

\* what the upload call can come to: an Operation still running ("check"),
\* an Operation already done, with a response or with an error, or an exception
UploadAnswers(f) ==
    IF f \in flaky THEN {"check", "result_ok", "result_err", "exception"}
                   ELSE {"check", "result_ok"}

\* what a done Operation holds: a response or an error
DoneAnswers(f) ==
    IF f \in flaky THEN {"result_ok", "result_err"} ELSE {"result_ok"}

\* a batch that fails fast: an upload that raises cancels the queued files
UploadReturnFailFast(f) ==
    /\ fstate[f] = "uploading"
    /\ \E r \in UploadAnswers(f) :
        fstate' = [g \in Files |->
                    IF g = f THEN r
                    ELSE IF r = "exception" /\ fstate[g] = "queued" THEN "exception"
                    ELSE fstate[g]]
    /\ UNCHANGED <<main_vars, reports>>

\* an upload that raised is put back on the queue for another attempt
UploadReturnRetry(f) ==
    /\ fstate[f] = "uploading"
    /\ \E r \in UploadAnswers(f) :
        fstate' = [fstate EXCEPT ![f] = IF r = "exception" THEN "queued" ELSE r]
    /\ UNCHANGED <<main_vars, reports>>

\* upload_to_file_search_store returns an Operation or raises
UploadReturn(f) ==
    /\ fstate[f] = "uploading"
    /\ \E r \in UploadAnswers(f) :
        fstate' = [fstate EXCEPT ![f] = r]
    /\ UNCHANGED <<main_vars, reports>>

\* a loop that goes on polling an Operation that is done
SleepAfterDone(f) ==
    /\ fstate[f] \in {"check", "result_ok", "result_err"}
    /\ reports[f] = <<>>
    /\ fstate' = [fstate EXCEPT ![f] = "sleep"]
    /\ UNCHANGED <<main_vars, reports>>

\* while not operation.done: time.sleep(1)
Sleep(f) ==
    /\ fstate[f] = "check"
    /\ fstate' = [fstate EXCEPT ![f] = "sleep"]
    /\ UNCHANGED <<main_vars, reports>>

\* operation = client.operations.get(operation): still running
GetRunning(f) ==
    /\ fstate[f] = "sleep"
    /\ fstate' = [fstate EXCEPT ![f] = "check"]
    /\ UNCHANGED <<main_vars, reports>>

\* operations.get answers done (with a response or an error), the loop ends
\* and upload_file returns the Operation
GetDone(f) ==
    /\ fstate[f] = "sleep"
    /\ \E r \in DoneAnswers(f) :
        fstate' = [fstate EXCEPT ![f] = r]
    /\ UNCHANGED <<main_vars, reports>>

\* operations.get raises
GetRaise(f) ==
    /\ fstate[f] = "sleep"
    /\ f \in flaky
    /\ fstate' = [fstate EXCEPT ![f] = "exception"]
    /\ UNCHANGED <<main_vars, reports>>

\* future.result() in the try block: the exception upload_file raised is
\* caught and printed as an error, an Operation it returned is dropped
Result(f) == IF fstate[f] = "exception" THEN "failure" ELSE "success"

\* a loop that may be handed a future it has handled before
CollectTwice(f) ==
    /\ pc = "collect"
    /\ fstate[f] \in Terminal
    /\ Len(reports[f]) < 2
    /\ reports' = [reports EXCEPT ![f] = Append(@, Result(f))]
    /\ UNCHANGED <<main_vars, fstate>>

\* one iteration of "for future in as_completed(futures)"
Collect(f) ==
    /\ pc = "collect"
    /\ fstate[f] \in Terminal
    /\ reports[f] = <<>>
    /\ reports' = [reports EXCEPT ![f] = Append(@, Result(f))]
    /\ UNCHANGED <<main_vars, fstate>>

\* a block that is left once the futures finished so far are handled
BatchExitNoWait ==
    /\ pc = "collect"
    /\ \A f \in Files : fstate[f] \in Terminal => reports[f] # <<>>
    /\ pc' = "query1"
    /\ UNCHANGED <<err, inputs, stores, file_search_store, slisting,
                   file_store, fstate, reports, docs, update_vars,
                   doc1_file>>

\* as_completed is exhausted and the with block shuts the executor down
BatchExit ==
    /\ pc = "collect"
    /\ \A f \in Files : fstate[f] \in Terminal /\ reports[f] # <<>>
    /\ pc' = "query1"
    /\ UNCHANGED <<err, inputs, stores, file_search_store, slisting,
                   file_store, fstate, reports, docs, update_vars,
                   doc1_file>>

\* ------------------------------------------------------------------- step 4
Query1 ==
    /\ pc = "query1"
    /\ \/ pc' = "write" /\ err' = err
       \/ Raise("generate failed")
    /\ UNCHANGED <<inputs, stores, file_search_store, slisting, file_store, fstate, reports, docs, update_vars, doc1_file>>

\* ------------------------------------------------------------------- step 5
\* step 5 without the write of the updated content
WriteDoc1Skip ==
    /\ pc = "write"
    /\ pc' = "find"
    /\ UNCHANGED <<err, inputs, stores, file_search_store, slisting,
                   file_store, fstate, reports, docs, update_vars, doc1_file>>

WriteDoc1 ==
    /\ pc = "write"
    /\ doc1_file' = "updated"
    /\ pc' = "find"
    /\ UNCHANGED <<err, inputs, stores, file_search_store, slisting,
                   file_store, fstate, reports, docs, update_vars>>

\* documents of the found store: those it held before the run, those the
\* batch indexed and the reuploaded one, without the deleted ones
BatchDocs ==
    LET ok == {f \in Files : fstate[f] = "result_ok"}
        RECURSIVE build(_)
        build(f) == IF f > nfiles THEN <<>>
                    ELSE (IF f \in ok
                          THEN <<[id |-> 100 + f, name |-> DisplayName(f), content |-> "orig"]>>
                          ELSE <<>>) \o build(f + 1)
    IN build(1)

ReuploadDocs ==
    IF upload_op = "done_ok"
    THEN <<[id |-> 200, name |-> doc1_display_name, content |-> "updated"]>>
    ELSE <<>>

StoreDocs ==
    SelectSeq(docs \o BatchDocs \o ReuploadDocs, LAMBDA d : d.id \notin deleted_docs)

\* step 5 without the raise after the loop
FindDocumentNoRaise ==
    /\ pc = "find"
    /\ LET i == FindFirst(StoreDocs, doc1_display_name, 1) IN
        /\ dlisting' = StoreDocs
        /\ err' = err
        /\ IF i = 0
           THEN document' = document /\ pc' = "reupload"
           ELSE document' = StoreDocs[i].id /\ pc' = "delete"
    /\ UNCHANGED <<inputs, stores, file_search_store, slisting, file_store,
                   fstate, reports, docs, deleted_docs, file_deleted,
                   upload_op, doc1_file>>

FindDocument ==
    /\ pc = "find"
    /\ LET i == FindFirst(StoreDocs, doc1_display_name, 1) IN
        /\ dlisting' = StoreDocs
        /\ IF i = 0
           THEN Raise("Document not found") /\ document' = document
           ELSE document' = StoreDocs[i].id /\ pc' = "delete" /\ err' = err
    /\ UNCHANGED <<inputs, stores, file_search_store, slisting, file_store, fstate, reports, docs, deleted_docs, file_deleted,
                   upload_op, doc1_file>>

DeleteDocument ==
    /\ pc = "delete"
    /\ \/ /\ deleted_docs' = deleted_docs \cup {document}
          /\ file_deleted' = TRUE
          /\ pc' = "reupload" /\ err' = err
       \/ Raise("delete failed") /\ UNCHANGED <<deleted_docs, file_deleted>>
    /\ UNCHANGED <<inputs, stores, file_search_store, slisting, file_store, fstate, reports, docs, dlisting, document,
                   upload_op, doc1_file>>

\* a reupload that is not polled to completion
ReuploadNoPoll ==
    /\ pc = "reupload"
    /\ \/ /\ upload_op' \in {"check", "done_ok", "done_err"}
          /\ pc' = "query2" /\ err' = err
       \/ Raise("upload failed") /\ upload_op' = upload_op
    /\ UNCHANGED <<inputs, stores, file_search_store, slisting, file_store,
                   fstate, reports, docs, dlisting, document,
                   deleted_docs, file_deleted, doc1_file>>

Reupload ==
    /\ pc = "reupload"
    /\ \/ /\ upload_op' = "check"
          /\ pc' = "upoll" /\ err' = err
       \/ /\ upload_op' \in {"done_ok", "done_err"}
          /\ pc' = "query2" /\ err' = err
       \/ Raise("upload failed") /\ upload_op' = upload_op
    /\ UNCHANGED <<inputs, stores, file_search_store, slisting, file_store, fstate, reports, docs, dlisting, document,
                   deleted_docs, file_deleted, doc1_file>>

UpdateSleep ==
    /\ pc = "upoll" /\ upload_op = "check"
    /\ upload_op' = "sleep"
    /\ UNCHANGED <<pc, err, inputs, stores, file_search_store, slisting,
                   file_store, fstate, reports, docs, dlisting,
                   document, deleted_docs, file_deleted, doc1_file>>

UpdateGetRunning ==
    /\ pc = "upoll" /\ upload_op = "sleep"
    /\ upload_op' = "check"
    /\ UNCHANGED <<pc, err, inputs, stores, file_search_store, slisting,
                   file_store, fstate, reports, docs, dlisting,
                   document, deleted_docs, file_deleted, doc1_file>>

UpdateGetDone ==
    /\ pc = "upoll" /\ upload_op = "sleep"
    /\ upload_op' \in {"done_ok", "done_err"}
    /\ pc' = "query2"
    /\ UNCHANGED <<err, inputs, stores, file_search_store, slisting,
                   file_store, fstate, reports, docs, dlisting,
                   document, deleted_docs, file_deleted, doc1_file>>

UpdateGetRaise ==
    /\ pc = "upoll" /\ upload_op = "sleep"
    /\ Raise("poll failed")
    /\ UNCHANGED <<inputs, stores, file_search_store, slisting, file_store, fstate, reports, docs, update_vars, doc1_file>>

\* ------------------------------------------------------------------- step 6
Query2 ==
    /\ pc = "query2"
    /\ \/ pc' = "cleanup" /\ err' = err
       \/ Raise("generate failed")
    /\ UNCHANGED <<inputs, stores, file_search_store, slisting, file_store, fstate, reports, docs, update_vars, doc1_file>>

\* ------------------------------------------------------------------ cleanup
Cleanup ==
    /\ pc = "cleanup"
    /\ \/ stores' = RemoveId(stores, file_store) /\ pc' = "done" /\ err' = err
       \/ Raise("store delete failed") /\ stores' = stores
    /\ UNCHANGED <<inputs, file_search_store, slisting, file_store,
                   fstate, reports, docs, update_vars, doc1_file>>

Worker(f) ==
    \/ Take(f)
    \/ UploadReturn(f)
    \/ Sleep(f)
    \/ GetRunning(f)
    \/ GetDone(f)
    \/ GetRaise(f)

Next ==
    \/ CheckKey
    \/ CreateStore
    \/ LookupStore
    \/ Submit
    \/ \E f \in Files : Worker(f)
    \/ \E f \in Files : Collect(f)
    \/ BatchExit
    \/ Query1
    \/ WriteDoc1
    \/ FindDocument
    \/ DeleteDocument
    \/ Reupload
    \/ UpdateSleep
    \/ UpdateGetRunning
    \/ UpdateGetDone
    \/ UpdateGetRaise
    \/ Query2
    \/ Cleanup

MainNext ==
    \/ CheckKey
    \/ CreateStore
    \/ LookupStore
    \/ Submit
    \/ \E f \in Files : Collect(f)
    \/ BatchExit
    \/ Query1
    \/ WriteDoc1
    \/ FindDocument
    \/ DeleteDocument
    \/ Reupload
    \/ UpdateSleep
    \/ UpdateGetRunning
    \/ UpdateGetDone
    \/ UpdateGetRaise
    \/ Query2
    \/ Cleanup

Spec == Init /\ [][Next]_vars

SpecBatch == InitBatch /\ [][Next]_vars

AllFiles == 1..(IF MaxFiles > PoolFiles THEN MaxFiles ELSE PoolFiles)

\* the main thread and every worker thread keep running
ThreadFairness ==
    /\ WF_vars(MainNext)
    /\ \A f \in AllFiles : WF_vars(f \in Files /\ Worker(f))

\* every Operation that is polled again and again reports done at some poll
RemoteFairness ==
    /\ \A f \in AllFiles : SF_vars(f \in Files /\ GetDone(f))
    /\ SF_vars(UpdateGetDone)

FairSpec == Init /\ [][Next]_vars /\ ThreadFairness

LiveBatch == InitLive /\ [][Next]_vars /\ ThreadFairness /\ RemoteFairness

\* ------------------------------------------------------------------- claims
AfterBatch == {"query1", "write", "find", "delete", "reupload", "upoll",
               "query2", "cleanup", "done"}

Failed == {"exception", "result_err"}

\* C1: when the batch upload has finished every input file has exactly one
\* terminal outcome; no file is without one and no file is ever given two.
C1_ExactlyOneOutcome ==
    /\ \A f \in Files : Len(reports[f]) <= 1
    /\ \A f \in Files : reports[f] # <<>> => fstate[f] \in Terminal
    /\ pc \in AfterBatch => \A f \in Files : Len(reports[f]) = 1

C1_Witness ==
    /\ pc = "query1" /\ nfiles = PoolFiles
    /\ reports[1] = <<"success">> /\ reports[2] = <<"failure">>
    /\ \A f \in Files : Len(reports[f]) = 1

\* C2: the number of files whose upload-then-poll sequence has started and
\* has not reached a terminal outcome never exceeds max_workers.
C2_InFlightBounded == Cardinality(InFlight) <= max_workers

C2_Witness ==
    /\ Cardinality(InFlight) = max_workers
    /\ \E f \in Files : fstate[f] = "queued"

\* C3: a file that fails, at submission or through its Operation, changes
\* nothing for its siblings, and when the batch has finished with a failed
\* file every other file has its own terminal outcome.
C3_NoCancel ==
    \A f \in Files :
        (fstate[f] \notin Failed /\ fstate'[f] \in Failed) =>
            \A g \in Files \ {f} : fstate'[g] = fstate[g] /\ reports'[g] = reports[g]

C3_FailureIsolated ==
    /\ [][C3_NoCancel]_vars
    /\ [](pc \in AfterBatch /\ (\E f \in Files : fstate[f] \in Failed) =>
            \A g \in Files : fstate[g] \in Terminal /\ Len(reports[g]) = 1)

C3_Witness ==
    /\ pc = "query1" /\ nfiles = PoolFiles
    /\ fstate[2] = "exception" /\ reports[2] = <<"failure">>
    /\ \A g \in Files \ {2} : fstate[g] = "result_ok" /\ reports[g] = <<"success">>

\* C4: a file whose polled Operation reports done with a failure result is
\* recorded as a failure, like a file whose submission raised.
C4_OperationFailureRecorded ==
    \A f \in Files :
        (fstate[f] = "result_err" /\ reports[f] # <<>>) => reports[f] = <<"failure">>

\* C5: lookup by display name yields the first entry of the listing whose
\* display name is the target, and the not-found failure exactly when no
\* entry of the listing has it; for stores and for documents.
Matches(listing, target) == {i \in DOMAIN listing : listing[i].name = target}

IsFirstMatch(listing, target, id) ==
    \E i \in Matches(listing, target) :
        /\ listing[i].id = id
        /\ \A j \in Matches(listing, target) : i <= j

StoreLookupDone ==
    pc \notin {"start", "create", "lookup"} /\
    err \notin {"GOOGLE_API_KEY not found", "create failed"}

DocLookupDone ==
    pc \in {"delete", "reupload", "upoll", "query2", "cleanup", "done"} \/
    err \in {"Document not found", "delete failed", "upload failed",
             "poll failed", "store delete failed"} \/
    (err = "generate failed" /\ doc1_file = "updated")

C5_FirstMatch ==
    /\ StoreLookupDone =>
        IF Matches(slisting, file_store_name) = {}
        THEN err = "Store not found" /\ file_store = 0
        ELSE err # "Store not found" /\ IsFirstMatch(slisting, file_store_name, file_store)
    /\ DocLookupDone =>
        IF Matches(dlisting, doc1_display_name) = {}
        THEN err = "Document not found" /\ document = 0
        ELSE err # "Document not found" /\ IsFirstMatch(dlisting, doc1_display_name, document)
    /\ ~StoreLookupDone => file_store = 0 /\ err # "Store not found"
    /\ ~DocLookupDone => document = 0 /\ err # "Document not found"

C5_Witness ==
    /\ Len(slisting) = 3
    /\ slisting[1].name = "x"
    /\ slisting[2].name = file_store_name
    /\ slisting[3].name = file_store_name
    /\ file_store = slisting[2].id
    /\ Cardinality(Matches(dlisting, doc1_display_name)) >= 2
    /\ document # 0

\* C6: the reupload is issued only after the delete of the matched document
\* has succeeded, and without a match, or with a failed delete, nothing is
\* deleted and nothing is uploaded.
C6_DeleteBeforeReupload ==
    /\ (pc \in {"reupload", "upoll", "query2", "cleanup", "done"} \/ upload_op # "none") =>
        /\ file_deleted
        /\ deleted_docs = {document}
        /\ IsFirstMatch(dlisting, doc1_display_name, document)
    /\ err \in {"Document not found", "delete failed"} =>
        /\ deleted_docs = {}
        /\ upload_op = "none"
        /\ ~file_deleted
    /\ deleted_docs # {} => document # 0 /\ deleted_docs = {document}
    /\ pc = "delete" => deleted_docs = {} /\ upload_op = "none"

C6_Witness ==
    /\ upload_op = "done_ok"
    /\ file_deleted
    /\ deleted_docs = {document}
    /\ ReuploadDocs # <<>>

\* C7: the steps after the batch run only when every submitted file has
\* reached its terminal outcome: nothing of the batch is queued or in flight.
C7_BatchBarrier ==
    (pc \in AfterBatch \/ (pc = "aborted" /\ err \notin
        {"GOOGLE_API_KEY not found", "create failed", "Store not found"})) =>
        \A f \in Files : fstate[f] \in Terminal

C7_Witness ==
    /\ pc = "find" /\ nfiles = PoolFiles
    /\ \A f \in Files : fstate[f] \in Terminal
    /\ \E f \in Files : fstate[f] = "exception"

\* C8: a configuration error ends the run where it is detected: no step of
\* the script or of a worker follows it, and without a credential no remote
\* call is made at all.
ConfigError == err \in {"GOOGLE_API_KEY not found", "Store not found", "Document not found"}

C8_ConfigErrorFatal ==
    /\ [][~ConfigError]_vars
    /\ [](ConfigError => pc = "aborted" /\ InFlight = {})
    /\ [](~api_key => pc \in {"start", "aborted"} /\ file_search_store = 0 /\ stores \in StoreListings)
    /\ [](err = "Store not found" => \A f \in Files : fstate[f] = "unsubmitted")
    /\ [](err = "Document not found" => deleted_docs = {} /\ upload_op = "none" /\ pc = "aborted")

C8_Witness ==
    /\ pc = "aborted" /\ err = "Document not found"
    /\ nfiles > 0 /\ fstate[1] \in Failed

\* C9: every poll loop ends: a file that is being polled reaches a terminal
\* outcome, and the update step leaves its poll loop.
C9_PollLoopsEnd ==
    /\ \A f \in AllFiles :
        (f \in Files /\ fstate[f] \in {"check", "sleep"}) ~>
            (f \in Files /\ fstate[f] \in Terminal)
    /\ (pc = "upoll") ~> (pc # "upoll")

\* C10: when every Operation eventually reports done and the threads are
\* scheduled fairly, every file of the batch starts its upload, the files
\* queued behind the worker bound included, every file reaches a terminal
\* outcome and the batch finishes.
C10_BatchCompletes ==
    /\ (pc = "collect" /\ nfiles > 0 /\ fstate[nfiles] = "queued") ~>
        (nfiles > 0 /\ fstate[nfiles] = "uploading")
    /\ (pc = "collect") ~>
        (pc = "query1" /\ \A f \in Files : fstate[f] \in Terminal /\ Len(reports[f]) = 1)

C10_Witness ==
    /\ pc = "query1" /\ nfiles > max_workers
    /\ \A f \in Files : fstate[f] \in Terminal

\* C11: within one file's sequence the submission comes before every poll,
\* every poll before the terminal outcome, nothing follows the terminal
\* outcome, and a file whose submission raised is never polled.
C11_Step(f) ==
    /\ fstate'[f] = "check" => fstate[f] \in {"uploading", "sleep", "check"}
    /\ fstate'[f] = "sleep" => fstate[f] \in {"check", "sleep"}
    /\ (fstate'[f] \in Terminal /\ fstate[f] \notin Terminal) =>
            fstate[f] \in {"uploading", "sleep"}
    /\ fstate[f] \in Terminal => fstate'[f] = fstate[f]
    /\ (fstate[f] = "uploading" /\ fstate'[f] = "exception") =>
            fstate'[f] \notin {"check", "sleep"}
    /\ reports'[f] # <<>> => fstate'[f] \in Terminal

C11_SequenceOrder == [][\A f \in Files : C11_Step(f)]_vars

C11_Witness ==
    /\ nfiles = 2
    /\ fstate[1] = "exception" /\ reports[1] = <<"failure">>
    /\ fstate[2] = "sleep"

\* C12: within one batch each file is submitted to the remote service at
\* most once: a file starts its upload only from the queue, and no file goes
\* back to the queue after a failure or while a worker holds it.
C12_Step(f) ==
    /\ (fstate'[f] = "uploading" /\ fstate[f] # "uploading") => fstate[f] = "queued"
    /\ (fstate'[f] = "queued" /\ fstate[f] # "queued") => fstate[f] = "unsubmitted"
    /\ fstate[f] \notin {"unsubmitted", "queued"} => ~ENABLED Take(f)

C12_SubmittedOnce == [][\A f \in Files : C12_Step(f)]_vars

C12_Witness ==
    /\ pc = "query1" /\ nfiles = 2
    /\ fstate[1] = "exception" /\ fstate[2] = "result_err"
    /\ \A f \in Files : fstate[f] \in Terminal

\* C13: when the document was found, its delete succeeded and the reupload
\* completed, the store holds no document named doc1.txt with the old
\* content at the time of the follow-up query, whatever the store held.
C13_OnlyNewContent ==
    (pc = "query2" /\ file_deleted /\ upload_op = "done_ok") =>
        \A i \in DOMAIN StoreDocs :
            StoreDocs[i].name = doc1_display_name => StoreDocs[i].content = "updated"

\* C14 as stated: no step of the run changes the content of a local input
\* file, and a run that aborts with document-not-found leaves it as it was.
C14_LocalFilesReadOnly ==
    /\ doc1_file = "orig"
    /\ err = "Document not found" => doc1_file = "orig"

\* C14 as amended: the only local file a run changes is docs/doc1.txt, and
\* only by the write of step 5: it holds its original content up to that
\* write and the updated content from then on, also in a run that aborts
\* with document-not-found, because the write comes before the lookup.
BeforeWrite ==
    pc \in {"start", "create", "lookup", "submit", "collect", "query1", "write"} \/
    err \in {"GOOGLE_API_KEY not found", "create failed", "Store not found"} \/
    (err = "generate failed" /\ upload_op = "none")

C14_OnlyStep5Writes ==
    /\ BeforeWrite => doc1_file = "orig"
    /\ ~BeforeWrite => doc1_file = "updated"
    /\ pc \in {"find", "delete", "reupload", "upoll", "query2", "cleanup", "done"} =>
            doc1_file = "updated"
    /\ err = "Document not found" => doc1_file = "updated"

C14_Witness ==
    /\ pc = "aborted" /\ err = "Document not found"
    /\ doc1_file = "updated"
    /\ deleted_docs = {} /\ upload_op = "none"

\* C15: the store deletion is the last remote call of a run: once it has
\* been issued no step follows, and it is issued only when every batch
\* upload and the reupload of step 5 have reached their terminal outcome.
StoreDeleteIssued == pc = "done" \/ err = "store delete failed"

C15_StoreDeleteLast ==
    /\ [][~StoreDeleteIssued]_vars
    /\ []((pc = "cleanup" \/ StoreDeleteIssued) =>
            /\ \A f \in Files : fstate[f] \in Terminal /\ Len(reports[f]) = 1
            /\ upload_op \in {"done_ok", "done_err"}
            /\ file_deleted)

C15_Witness ==
    /\ pc = "done" /\ nfiles = 2
    /\ upload_op = "done_ok"
    /\ \A i \in DOMAIN stores : stores[i].id # file_store

\* C16: in a run that completes, the store that received the uploads and
\* was deleted at cleanup is the store created in step 1, and the account
\* holds exactly the stores it held before the run.
StoreIds == {stores[i].id : i \in DOMAIN stores}

C16_CreatedStoreDeleted ==
    pc = "done" =>
        /\ file_store = file_search_store
        /\ StoreIds = 1..(file_search_store - 1)

\* C17: a run that has created its store and has ended, normally or by a
\* fatal error, has issued the store deletion before it ended.
C17_StoreNeverLeftBehind ==
    (pc \in {"done", "aborted"} /\ file_search_store # 0) => StoreDeleteIssued

TypeOK ==
    /\ pc \in {"start", "create", "lookup", "submit", "collect", "query1", "write", "find", "delete", "reupload", "upoll", "query2", "cleanup", "done", "aborted"}
    /\ \A f \in Files : fstate[f] \in {"unsubmitted", "queued", "uploading", "check", "sleep"} \cup Terminal
====
